---- MODULE Spec2Model ----
(***************************************************************************)
(* rrat: median copy numbers over a taxonomy tree.                         *)
(*                                                                         *)
(* The model covers the Node class (src/rrat.py 143-186), the node tree    *)
(* build loop of main (188-201) and the two traversals started from the    *)
(* registry.  Node objects live in a heap `objs` (a sequence, an object is *)
(* its index, allocation order); `node_objs` is the tax_id -> object dict. *)
(* Copy numbers are floats in the program; here they are fixed-point       *)
(* integers, multiples of 1/Unit, so that the mean of the two middle       *)
(* values that statistics.median takes is exact.                           *)
(***************************************************************************)
EXTENDS Integers, Sequences, FiniteSets, TLC

\* ------------------------------------------------------------------ bounds
MaxRows == 3            \* rows of the nodes file the build loop reads

\* the tax_ids of the nodes file; "1" is the root of the NCBI taxonomy
Ids == {"1", "2", "3"}
\* the rows of a nodes file: <<tax_id, parent_id>>; the root's row names the
\* root as its own parent, as nodes.dmp does (the loop never reads it)
Rows == {r \in Ids \X Ids : r[1] = "1" => r[2] = "1"}

\* Python's None, where a copy number (a float >= 0) is expected
None == -1
\* where an object is expected, none: Node.parent, which no line assigns
\* until set_parent does (objects are numbered from 1)
NoAttr == 0
NoExc == "none"         \* no exception escaped the call

\* one copy, in fixed point: every halving of a median of medians is exact
Unit == 2 ^ (MaxRows + 1)
Vals == {Unit, 2 * Unit}

\* sys.getrecursionlimit(), scaled: deeper than any acyclic chain of objects
RecursionLimit == 2 * MaxRows + 2

VARIABLES
    rrndb_medians,  \* dict tax_id -> median of its rrndb rows (None: no key)
    rows,           \* the rows of `nodes` the loop has consumed, in order
    objs,           \* heap of Node objects
    node_objs,      \* dict tax_id -> Node (index in objs)
    pc,             \* "build", then "phase1", "phase2" or "calls" (see After)
    call,           \* the last call made: <<method, tax_id>> or, for
                    \* set_median, <<method, tax_id, median>>
    ret,            \* what the last call returned
    raised          \* the exception that escaped the last call; nothing
                    \* catches it, so it ends the run

vars == <<rrndb_medians, rows, objs, node_objs, pc, call, ret, raised>>

\* ---------------------------------------------------------------- Node
\* Node.__init__
Node(tax_id, rrndb) ==
    [tax_id |-> tax_id, children |-> <<>>, median |-> rrndb, parent |-> NoAttr]

\* Node.add_child, on the heap
add_child(os, self, child) ==
    [os EXCEPT ![self].children = Append(@, child)]

\* Node.set_parent, on the heap
set_parent(os, self, parent) ==
    [os EXCEPT ![self].parent = parent]

\* mutant of set_median: the value is assigned whatever the node holds
set_median_overwrite(os, self, median) ==
    [objs |-> [os EXCEPT ![self].median = median], raised |-> NoExc]

\* Node.set_median: the else branch means to raise ValueError, but building
\* its message, '{tax_id} ... {median}'.format(self), raises KeyError first.
set_median(os, self, median) ==
    IF os[self].median = None
    THEN [objs |-> [os EXCEPT ![self].median = median], raised |-> NoExc]
    ELSE [objs |-> os, raised |-> "KeyError"]

\* mutant of inherit: the `is None` test is lost
inherit_unguarded(os, self, c) == set_median(os, c, os[self].median)

\* mutant of inherit: the child is handed its own median
inherit_own(os, self, c) ==
    IF os[c].median = None
    THEN set_median(os, c, os[c].median)
    ELSE [objs |-> os, raised |-> NoExc]

\* pre_order, lines 178-179: a child still empty takes the parent's median
inherit(os, self, c) ==
    IF os[c].median = None
    THEN set_median(os, c, os[self].median)
    ELSE [objs |-> os, raised |-> NoExc]

\* mutant of median: the upper middle value instead of the mean
median_high(data) ==
    LET s == SortSeq(data, LAMBDA a, b: a < b)
    IN  s[(Len(s) \div 2) + 1]

\* statistics.median: sort, then the middle value or the mean of the two
\* middle values (data[n//2], or (data[i - 1] + data[i]) / 2 with i = n//2)
median(data) ==
    LET s == SortSeq(data, LAMBDA a, b: a < b)
        n == Len(s)
        i == n \div 2
    IN  IF n % 2 = 1 THEN s[i + 1] ELSE (s[i] + s[i + 1]) \div 2

RECURSIVE post_order(_, _, _), post_loop(_, _, _, _, _)
RECURSIVE pre_order(_, _, _), pre_loop(_, _, _, _)

\* Node.post_order, `depth` frames deep.  Result: the heap, the value
\* returned and the exception that escaped (then ret is meaningless).
post_order(os, self, depth) ==
    IF depth > RecursionLimit
    THEN [objs |-> os, ret |-> None, raised |-> "RecursionError"]
    ELSE IF os[self].median = None
    THEN LET r == post_loop(os, self, 1, <<>>, depth)
             m == IF r.medians # <<>> THEN median(r.medians) ELSE None
         IN  IF r.raised # NoExc
             THEN [objs |-> r.objs, ret |-> None, raised |-> r.raised]
             ELSE [objs |-> [r.objs EXCEPT ![self].median = m],
                   ret |-> m, raised |-> NoExc]
    ELSE [objs |-> os, ret |-> os[self].median, raised |-> NoExc]

\* the for loop of post_order, from the i-th child on
post_loop(os, self, i, medians, depth) ==
    IF i > Len(os[self].children)
    THEN [objs |-> os, medians |-> medians, raised |-> NoExc]
    ELSE LET r == post_order(os, os[self].children[i], depth + 1)
         IN  IF r.raised # NoExc
             THEN [objs |-> r.objs, medians |-> medians, raised |-> r.raised]
             ELSE post_loop(r.objs, self, i + 1,
                            IF r.ret # None THEN Append(medians, r.ret)
                                            ELSE medians,
                            depth)

\* Node.pre_order, `depth` frames deep
pre_order(os, self, depth) ==
    IF depth > RecursionLimit
    THEN [objs |-> os, raised |-> "RecursionError"]
    ELSE pre_loop(os, self, 1, depth)

\* the for loop of pre_order, from the i-th child on
pre_loop(os, self, i, depth) ==
    IF i > Len(os[self].children)
    THEN [objs |-> os, raised |-> NoExc]
    ELSE LET c == os[self].children[i]
             s == inherit(os, self, c)
             r == pre_order(s.objs, c, depth + 1)
         IN  IF s.raised # NoExc THEN s
             ELSE IF r.raised # NoExc THEN r
             ELSE pre_loop(r.objs, self, i + 1, depth)

\* ------------------------------------------------------- node tree build
\* rrndb_medians.get(tax_id, None)
Get(d, tax_id) == d[tax_id]

\* mutant of SubjectNode: a node the registry already holds is kept
SubjectNode_reuse(h, d, tax_id) ==
    IF tax_id \in DOMAIN h.node_objs
    THEN h
    ELSE [objs |-> Append(h.objs, Node(tax_id, Get(d, tax_id))),
          node_objs |-> (tax_id :> (Len(h.objs) + 1)) @@ h.node_objs]

\* lines 192-193: the row's own node, always a new object
SubjectNode(h, d, tax_id) ==
    [objs |-> Append(h.objs, Node(tax_id, Get(d, tax_id))),
     node_objs |-> (tax_id :> (Len(h.objs) + 1)) @@ h.node_objs]

\* lines 195-199: the parent, from the registry or a new placeholder
\* (constructed with the median of the row's tax_id, not of parent_id)
ParentNode(h, d, tax_id, parent_id) ==
    IF parent_id \in DOMAIN h.node_objs
    THEN h
    ELSE [objs |-> Append(h.objs, Node(parent_id, Get(d, tax_id))),
          node_objs |-> (parent_id :> (Len(h.objs) + 1)) @@ h.node_objs]

\* the body of the build loop for one row
LoopBody(h, d, tax_id, parent_id) ==
    LET h1 == SubjectNode(h, d, tax_id)
        node == h1.node_objs[tax_id]
        h2 == ParentNode(h1, d, tax_id, parent_id)
        parent == h2.node_objs[parent_id]
    IN  IF tax_id # "1"
        THEN [h2 EXCEPT !.objs = set_parent(add_child(@, parent, node),
                                            node, parent)]
        ELSE h1

EmptyHeap == [objs |-> <<>>, node_objs |-> <<>>]

\* the whole loop over a nodes file
RECURSIVE Build(_, _)
Build(d, rs) ==
    IF rs = <<>> THEN EmptyHeap
    ELSE LET k == Len(rs)
         IN  LoopBody(Build(d, SubSeq(rs, 1, k - 1)), d, rs[k][1], rs[k][2])

\* ---------------------------------------------------------------- actions
Init ==
    /\ rrndb_medians \in [Ids -> Vals \cup {None}]
    /\ rows = <<>>
    /\ objs = <<>>
    /\ node_objs = <<>>
    /\ pc = "build"
    /\ call = <<>>
    /\ ret = None
    /\ raised = NoExc

\* where the run stands once `method` has been called on node_objs[tax_id]:
\* root.post_order() right after the build is phase 1 (lines 206-208), and
\* root.pre_order() right after phase 1 is phase 2
After(at, method, tax_id) ==
    IF at = "build" /\ method = "post_order" /\ tax_id = "1" THEN "phase1"
    ELSE IF at = "phase1" /\ method = "pre_order" /\ tax_id = "1" THEN "phase2"
    ELSE "calls"

\* one iteration of `for tax_id, parent_id in nodes`
BuildRow(tax_id, parent_id) ==
    /\ pc = "build"
    /\ raised = NoExc
    /\ Len(rows) < MaxRows
    /\ LET h == LoopBody([objs |-> objs, node_objs |-> node_objs],
                         rrndb_medians, tax_id, parent_id)
       IN  /\ objs' = h.objs
           /\ node_objs' = h.node_objs
    /\ rows' = Append(rows, <<tax_id, parent_id>>)
    /\ UNCHANGED <<rrndb_medians, pc, call, ret, raised>>

\* node_objs[tax_id].post_order(), as main calls it (lines 203, 208)
PostOrderCall(tax_id) ==
    /\ raised = NoExc
    /\ tax_id \in DOMAIN node_objs
    /\ LET r == post_order(objs, node_objs[tax_id], 1)
       IN  /\ objs' = r.objs
           /\ ret' = r.ret
           /\ raised' = r.raised
    /\ pc' = After(pc, "post_order", tax_id)
    /\ call' = <<"post_order", tax_id>>
    /\ UNCHANGED <<rrndb_medians, rows, node_objs>>

\* node_objs[tax_id].pre_order()
PreOrderCall(tax_id) ==
    /\ raised = NoExc
    /\ tax_id \in DOMAIN node_objs
    /\ LET r == pre_order(objs, node_objs[tax_id], 1)
       IN  /\ objs' = r.objs
           /\ raised' = r.raised
    /\ ret' = None
    /\ pc' = After(pc, "pre_order", tax_id)
    /\ call' = <<"pre_order", tax_id>>
    /\ UNCHANGED <<rrndb_medians, rows, node_objs>>

\* node_objs[tax_id].set_median(v), a caller forcing an assignment
SetMedianCall(tax_id, v) ==
    /\ raised = NoExc
    /\ tax_id \in DOMAIN node_objs
    /\ LET r == set_median(objs, node_objs[tax_id], v)
       IN  /\ objs' = r.objs
           /\ raised' = r.raised
    /\ ret' = None
    /\ pc' = After(pc, "set_median", tax_id)
    /\ call' = <<"set_median", tax_id, v>>
    /\ UNCHANGED <<rrndb_medians, rows, node_objs>>

\* the build and the two traversals, started at any node of the registry
Next ==
    \/ \E r \in Rows : BuildRow(r[1], r[2])
    \/ \E tax_id \in Ids : PostOrderCall(tax_id)
    \/ \E tax_id \in Ids : PreOrderCall(tax_id)

Spec == Init /\ [][Next]_vars

\* the build and the traversals from the root, with a caller that also
\* assigns medians to nodes of the registry itself
NextForce ==
    \/ \E r \in Rows : BuildRow(r[1], r[2])
    \/ PostOrderCall("1")
    \/ PreOrderCall("1")
    \/ \E tax_id \in Ids, v \in Vals : SetMedianCall(tax_id, v)

SpecForce == Init /\ [][NextForce]_vars

\* ------------------------------------------------- the shape of the heap
\* the objects in n.children
Kids(os, n) == {os[n].children[i] : i \in DOMAIN os[n].children}

\* everything reachable from the objects of S through children links
RECURSIVE Reach(_, _)
Reach(os, S) ==
    LET T == S \cup UNION {Kids(os, x) : x \in S}
    IN  IF T = S THEN S ELSE Reach(os, T)

\* the proper descendants of n (n itself when n lies on a cycle)
Desc(os, n) == Reach(os, Kids(os, n))

\* n and its descendants
Tree(os, n) == {n} \cup Desc(os, n)

\* the proper ancestors of n
Anc(os, n) == {a \in DOMAIN os : n \in Desc(os, a)}

Acyclic(os) == \A n \in DOMAIN os : n \notin Desc(os, n)

\* the root object, once the registry has one
Root == node_objs["1"]

\* ---------------------------------------------------- shapes of edge lists
Subjects(rs) == {rs[i][1] : i \in DOMAIN rs}

\* no tax_id is the subject of two rows
NoDupSubjects(rs) ==
    \A i, j \in DOMAIN rs : rs[i][1] = rs[j][1] => i = j

\* the row of tax_id t leads to "1" within `fuel` parent steps
RECURSIVE ReachesRoot(_, _, _)
ReachesRoot(rs, t, fuel) ==
    \/ t = "1"
    \/ /\ fuel > 0
       /\ \E i \in DOMAIN rs : rs[i][1] = t /\ ReachesRoot(rs, rs[i][2], fuel - 1)

\* every identifier is the subject of exactly one row, "1" included, and
\* every chain of parent identifiers reaches "1"
WellFormed(rs) ==
    /\ NoDupSubjects(rs)
    /\ "1" \in Subjects(rs)
    /\ \A i \in DOMAIN rs : rs[i][2] \in Subjects(rs)
    /\ \A i \in DOMAIN rs : ReachesRoot(rs, rs[i][1], Len(rs))

\* no row other than the root's names its own tax_id as its parent
NoSelfRows(rs) ==
    \A i \in DOMAIN rs : rs[i][1] = rs[i][2] => rs[i][1] = "1"

\* the orderings of an edge list
Orderings(rs) ==
    LET n == Len(rs)
        P == {f \in [1..n -> 1..n] : \A i, j \in 1..n : f[i] = f[j] => i = j}
    IN  {[i \in 1..n |-> rs[f[i]]] : f \in P}

\* what a build over rs followed by post_order then pre_order from
\* node_objs["1"] gives every identifier: parent, children, final median
Outcome(rs) ==
    LET h == Build(rrndb_medians, rs)
        root == h.node_objs["1"]
        r1 == post_order(h.objs, root, 1)
        r2 == pre_order(r1.objs, root, 1)
        IdOf(n) == IF n = NoAttr THEN "" ELSE h.objs[n].tax_id
    IN  [t \in DOMAIN h.node_objs |->
            LET n == h.node_objs[t]
            IN  [parent |-> IdOf(h.objs[n].parent),
                 children |-> {IdOf(c) : c \in Kids(h.objs, n)},
                 median |-> r2.objs[n].median]]

\* ------------------------------------------------------------ build claims
\* the loop of main and the Build operator agree on the heap
BuildAgrees ==
    pc = "build" =>
        Build(rrndb_medians, rows) = [objs |-> objs, node_objs |-> node_objs]

\* C3: the result of the build is insensitive to the order of the rows: any
\* two orderings of a well-formed edge list give every identifier the same
\* parent, the same set of children and, after post_order then pre_order
\* from node_objs["1"], the same final median.
C3_OrderInsensitive ==
    (pc = "build" /\ WellFormed(rows)) =>
        \A q \in Orderings(rows) : Outcome(q) = Outcome(rows)

\* C4: after the build over a well-formed edge list the node graph is a
\* single tree rooted at node_objs["1"]: no cycles, every non-root node of
\* the registry has exactly one parent, and every node of the registry is
\* reachable from node_objs["1"] through children links.
C4_SingleTree ==
    (pc = "build" /\ WellFormed(rows)) =>
        /\ Acyclic(objs)
        /\ \A t \in DOMAIN node_objs \ {"1"} :
              Cardinality({p \in DOMAIN objs : node_objs[t] \in Kids(objs, p)}) = 1
        /\ \A t \in DOMAIN node_objs : node_objs[t] \in Tree(objs, Root)

\* C5: during a build at most one Node is ever created per identifier: an
\* identifier first created as a placeholder parent and later the subject
\* of its own row keeps the placeholder object, children included.
C5_OneNodePerId ==
    NoDupSubjects(rows) =>
        \A i, j \in DOMAIN objs : objs[i].tax_id = objs[j].tax_id => i = j

\* C10 as stated: for every edge list, self-parent rows included, the
\* children relation is acyclic and the traversals terminate (no
\* RecursionError).
C10_AlwaysAcyclic ==
    Acyclic(objs) /\ raised # "RecursionError"

\* C10, amended: for every edge list in which no row other than the root's
\* names its own tax_id as its parent (duplicate subject rows and mutually
\* referencing rows included), the children relation is acyclic and
\* post_order and pre_order started at any node of the registry terminate.
C10_AcyclicWithoutSelfRows ==
    NoSelfRows(rows) => (Acyclic(objs) /\ raised # "RecursionError")

\* C10 witness: mutually referencing rows were built and a traversal over
\* them returned.
C10_Witness ==
    /\ NoSelfRows(rows)
    /\ \E i, j \in DOMAIN rows :
          rows[i][1] # rows[i][2] /\ rows[j] = <<rows[i][2], rows[i][1]>>
    /\ pc = "calls" /\ raised = NoExc
    /\ \E n \in DOMAIN objs : Cardinality(Desc(objs, n)) >= 2

\* ------------------------------------------------------ propagation claims
\* the AggregateMap entry of the identifier of n (None: no observation)
Own(n) == Get(rrndb_medians, objs[n].tax_id)

HasObs(n) == Own(n) # None

\* the root's own row was read, so node_objs["1"] is no placeholder
RootRowSeen == "1" \in Subjects(rows)

\* the non-empty medians of the children of n in heap os, in child order
ChildMedians(os, n) ==
    SelectSeq([i \in DOMAIN os[n].children |-> os[os[n].children[i]].median],
              LAMBDA v : v # None)

\* the k-th smallest value of vs, by counting
OrderStat(vs, k) ==
    CHOOSE x \in {vs[i] : i \in DOMAIN vs} :
        /\ Cardinality({i \in DOMAIN vs : vs[i] < x}) < k
        /\ Cardinality({i \in DOMAIN vs : vs[i] <= x}) >= k

\* m is the statistical median of vs: the middle value, or the mean of the
\* two middle values
IsMedianOf(m, vs) ==
    LET n == Len(vs)
    IN  IF n % 2 = 1
        THEN m = OrderStat(vs, (n + 1) \div 2)
        ELSE 2 * m = OrderStat(vs, n \div 2) + OrderStat(vs, (n \div 2) + 1)

\* phase 1 as the claims describe it: the own aggregate, else the median of
\* the children's non-empty results, else empty
RECURSIVE Aggregated(_)
Aggregated(n) ==
    IF HasObs(n) THEN Own(n)
    ELSE LET ch == objs[n].children
             vs == SelectSeq([i \in DOMAIN ch |-> Aggregated(ch[i])],
                             LAMBDA v : v # None)
         IN  IF vs # <<>> THEN median(vs) ELSE None

\* the value the claims give a node after both phases: its phase-1 value,
\* else the resolved value of its nearest ancestor that has one
RECURSIVE Resolved(_)
Resolved(n) ==
    IF Aggregated(n) # None THEN Aggregated(n)
    ELSE IF objs[n].parent = NoAttr THEN None
    ELSE Resolved(objs[n].parent)

\* C1: after post_order then pre_order on the root of a built tree, every
\* node reachable from the root holds (a) its own AggregateMap value if it
\* has one, else (b) the median of its children's non-empty phase-1 results
\* if a descendant has a value, else (c) the resolved value of its nearest
\* ancestor that has one.
C1_NetEffect ==
    (pc = "phase2" /\ RootRowSeen) =>
        \A n \in Tree(objs, Root) : objs[n].median = Resolved(n)

\* C8: after post_order has run on the root, every node of the tree with a
\* valued descendant has a value.
C8_Phase1FillsAboveValues ==
    (pc = "phase1" /\ RootRowSeen) =>
        \A n \in Tree(objs, Root) :
            (\E d \in Desc(objs, n) : objs[d].median # None)
                => objs[n].median # None

\* C2 as stated: after post_order then pre_order from the root, a node's
\* value is defined if and only if the node, a descendant of it or an
\* ancestor of it has an observation.
C2_DefinedIffObservedOnItsLine ==
    (pc = "phase2" /\ RootRowSeen) =>
        \A n \in Tree(objs, Root) :
            objs[n].median # None <=>
                \/ HasObs(n)
                \/ \E d \in Desc(objs, n) : HasObs(d)
                \/ \E a \in Anc(objs, n) : HasObs(a)

\* the value the build constructed object n with: the AggregateMap entry
\* of its own row or, for a placeholder, of the row that referenced it
Constructed(n) == Build(rrndb_medians, rows).objs[n].median

\* C2, amended: after post_order then pre_order from the root, a node's
\* value is defined if and only if the node or a descendant of it was
\* built with an observation, or an ancestor of it was or has a descendant
\* that was.
C2_DefinedIffObservedUnderAnAncestor ==
    pc = "phase2" =>
        \A n \in Tree(objs, Root) :
            objs[n].median # None <=>
                \/ Constructed(n) # None
                \/ \E d \in Desc(objs, n) : Constructed(d) # None
                \/ \E a \in Anc(objs, n) :
                      \/ Constructed(a) # None
                      \/ \E d \in Desc(objs, a) : Constructed(d) # None

\* C2 witness: after both phases a node holds a value although neither it,
\* nor a descendant, nor an ancestor has an observation, and another node
\* is defined by its own observation.
C2_Witness ==
    /\ pc = "phase2" /\ RootRowSeen
    /\ \E n \in Tree(objs, Root) :
          /\ objs[n].median # None
          /\ ~HasObs(n)
          /\ \A d \in Desc(objs, n) \cup Anc(objs, n) : ~HasObs(d)

C7_MedianOfChildren ==
    [][(\E t \in Ids : PostOrderCall(t)) =>
          \A n \in DOMAIN objs :
              (objs[n].median = None /\ objs'[n].median # None)
                  => /\ ChildMedians(objs', n) # <<>>
                     /\ IsMedianOf(objs'[n].median, ChildMedians(objs', n))]_vars

\* C7 witness: phase 1 gave the root, which has no observation, the mean of
\* the two different values of its children.
C7_Witness ==
    /\ pc = "phase1" /\ RootRowSeen /\ ~HasObs(Root)
    /\ Len(ChildMedians(objs, Root)) = 2
    /\ ChildMedians(objs, Root)[1] # ChildMedians(objs, Root)[2]
    /\ objs[Root].median # None
    /\ ret = objs[Root].median

\* C9: across post_order and pre_order calls started at any nodes, a value
\* that is set never changes, and set_median's conflict error is never
\* raised.
C9_ValuesOnlyGetSet ==
    [][(\E t \in Ids : PostOrderCall(t) \/ PreOrderCall(t)) =>
          /\ raised' # "KeyError"
          /\ \A n \in DOMAIN objs :
                objs[n].median # None => objs'[n].median = objs[n].median]_vars

\* C9 witness: pre_order ran from the root over a child holding a value of
\* its own, other than the root's, and a child that inherited the root's.
C9_Witness ==
    /\ pc = "phase2" /\ RootRowSeen /\ raised = NoExc
    /\ \E c, e \in Kids(objs, Root) :
          /\ HasObs(c) /\ objs[c].median = Own(c)
          /\ objs[c].median # objs[Root].median
          /\ ~HasObs(e) /\ objs[e].median = objs[Root].median

====
